---- MODULE Spec2Model ----
(***************************************************************************)
(* Model of the check execution engine of seastar-consulting/checkers:     *)
(*   - cmd/root.go            run: configuration load, fan-out of one      *)
(*                            goroutine per check, collection loop,        *)
(*                            summary and returned error                   *)
(*   - internal/executor      Executor.ExecuteCheck: registry lookup,      *)
(*                            native path, command path, select on the     *)
(*                            per-check context                            *)
(*   - internal/processor     Processor.ProcessOutput                      *)
(*   - internal/config        Manager.validate                             *)
(*   - checks                 Registry, Get                                *)
(*   - main.go                exit status                                  *)
(*                                                                         *)
(* A Go string is modelled as a Text: a sequence of atoms.  An atom is a   *)
(* TLA+ string standing for a piece of text that is never split: a space,  *)
(* a newline, a word, a fixed message, or a whole JSON value.              *)
(***************************************************************************)
EXTENDS Integers, Sequences, FiniteSets, TLC

VARIABLES
    mode,            \* which part is under study: "run", "direct" (ExecuteCheck alone), "cmd", "proc", "registry"
    cfg,             \* cfg.Checks as produced by the YAML parser (sequence of CheckItem)
    ctx,             \* error of the caller's context: run's ctx (root.go:497) or the ctx handed to ExecuteCheck
    pcMain,          \* position of run
    pc,              \* position of each check's goroutine inside ExecuteCheck
    cctx,            \* error of each check's ctxWithTimeout (executor.go:34)
    proc,            \* state of each check's child process or native function
    done,            \* what the helper goroutine sent on done / errChan+resultChan
    ret,             \* what ExecuteCheck returned for each check
    resultChan,      \* buffered channel of checkResult (root.go:509)
    results,         \* run's results slice
    owner,           \* history: position in cfg of the check each element of results was appended for
    timedOutChecks,  \* run's timedOutChecks slice (names)
    failedChecks,    \* run's failedChecks slice
    remainingChecks, \* run's remainingChecks counter
    runErr,          \* error returned by run
    exitCode,        \* process exit status set by main
    crashed,         \* an unrecovered panic ended the process
    hist,            \* history: where each check stood when its context became done, and with which error
    inp,             \* "cmd" and "proc" modes: the input handed to the function under study
    out,             \* "cmd" and "proc" modes: the CheckResult computed for inp
    sortedResults,   \* run's sortedResults slice, handed to the formatter (root.go:590-595)
    written,         \* whether run has written the formatted results: "no", "yes", "failed"
    opts,            \* the --timeout flag: whether it was set, and opts.Timeout
    cfgTimeout,      \* cfg.Timeout of the configuration file (NoTimeout when absent)
    timeout,         \* run's local variable timeout (root.go:490)
    ctxTimeout,      \* the duration of run's context.WithTimeout (root.go:497)
    execTimeout,     \* Executor.timeout, the duration of each check's ctxWithTimeout
    registry,        \* "registry" mode: the map checks.Registry
    mu,              \* "registry" mode: the sync.RWMutex mu of package checks
    rpc,             \* "registry" mode: what each caller of the registry is doing
    rres,            \* "registry" mode: what the last call of each caller returned
    log,             \* history: the Register writes in the order they were applied
    clock,           \* "deadline" mode: the time now
    deadline,        \* "deadline" mode: the deadline of run's context (root.go:497)
    cdeadline        \* "deadline" mode: per started check, when ExecuteCheck was entered and the deadline of its ctxWithTimeout

vars == <<mode, cfg, ctx, pcMain, pc, cctx, proc, done, ret, resultChan, results, owner,
          timedOutChecks, failedChecks, remainingChecks, runErr, exitCode, crashed,
          hist, inp, out, sortedResults, written, opts, cfgTimeout, timeout, ctxTimeout,
          execTimeout, registry, mu, rpc, rres, log, clock, deadline, cdeadline>>

outVars == <<sortedResults, written>>
tmoVars == <<opts, cfgTimeout, timeout, ctxTimeout, execTimeout>>
regVars == <<registry, mu, rpc, rres, log>>
timeVars == <<clock, deadline, cdeadline>>

-----------------------------------------------------------------------------
(* Bounds *)

MaxChecks == 2      \* longest cfg.Checks explored in "run" mode
MaxTextLen == 2     \* longest stdout / stderr explored in "cmd" mode
MaxCallers == 2     \* goroutines that call the registry in "registry" mode
MaxRegisters == 2   \* Register calls explored in "registry" mode
MaxClock == 3       \* time units explored in "deadline" mode

-----------------------------------------------------------------------------
(* Texts *)

Space == {" ", "\n"}

RECURSIVE TrimLeft(_)
TrimLeft(s) ==
    IF s = <<>> THEN <<>>
    ELSE IF Head(s) \in Space THEN TrimLeft(Tail(s))
    ELSE s

RECURSIVE TrimRight(_)
TrimRight(s) ==
    IF s = <<>> THEN <<>>
    ELSE IF s[Len(s)] \in Space THEN TrimRight(SubSeq(s, 1, Len(s) - 1))
    ELSE s

\* strings.TrimSpace
TrimSpace(s) == TrimRight(TrimLeft(s))

\* a Go string held in one atom; the empty string is the empty Text
Str(a) == IF a = "" THEN <<>> ELSE <<a>>

RECURSIVE StripSpace(_)
StripSpace(s) ==
    IF s = <<>> THEN <<>>
    ELSE IF Head(s) \in Space THEN StripSpace(Tail(s))
    ELSE <<Head(s)>> \o StripSpace(Tail(s))

-----------------------------------------------------------------------------
(* JSON *)

Absent == [k |-> "absent", v |-> <<>>]
NonStr == [k |-> "nonstr", v |-> <<>>]
StrVal(t) == [k |-> "str", v |-> t]

Obj(s, o, e) == [status |-> s, output |-> o, error |-> e]

\* The JSON values that may appear in a command's output, with the map
\* json.Unmarshal builds from each: the keys "status", "output", "error".
\* "null" unmarshals into a nil map without error.
JsonTable ==
    [ a \in { "null", "{}",
              "{\"status\":\"success\",\"output\":\"ok\"}",
              "{\"status\":\"WARN\",\"output\":\"x\"}",
              "{\"status\":\"fail\"}",
              "{\"status\":\"bogus\"}",
              "{\"status\":\"success\",\"error\":\"boom\"}",
              "{\"output\":\"x\"}",
              "{\"output\":1}",
              "{\"status\":1}" } |->
        CASE a = "null" -> Obj(Absent, Absent, Absent)
          [] a = "{}" -> Obj(Absent, Absent, Absent)
          [] a = "{\"status\":\"success\",\"output\":\"ok\"}" -> Obj(StrVal(<<"success">>), StrVal(<<"ok">>), Absent)
          [] a = "{\"status\":\"WARN\",\"output\":\"x\"}" -> Obj(StrVal(<<"WARN">>), StrVal(<<"x">>), Absent)
          [] a = "{\"status\":\"fail\"}" -> Obj(StrVal(<<"fail">>), Absent, Absent)
          [] a = "{\"status\":\"bogus\"}" -> Obj(StrVal(<<"bogus">>), Absent, Absent)
          [] a = "{\"status\":\"success\",\"error\":\"boom\"}" -> Obj(StrVal(<<"success">>), Absent, StrVal(<<"boom">>))
          [] a = "{\"output\":\"x\"}" -> Obj(Absent, StrVal(<<"x">>), Absent)
          [] a = "{\"output\":1}" -> Obj(Absent, NonStr, Absent)
          [] a = "{\"status\":1}" -> Obj(NonStr, Absent, Absent) ]

JsonAtoms == DOMAIN JsonTable

\* json.Unmarshal([]byte(output), &jsonOutput) with jsonOutput a
\* map[string]interface{}: succeeds exactly on one JSON object (or null),
\* with any white space around it.
UnmarshalOK(t) == Len(StripSpace(t)) = 1 /\ StripSpace(t)[1] \in JsonAtoms
Unmarshal(t) == JsonTable[StripSpace(t)[1]]

\* strings.ToLower on the status strings that occur
ToLower(t) ==
    [i \in 1..Len(t) |->
        CASE t[i] = "WARN" -> "warn"
          [] t[i] = "Success" -> "success"
          [] t[i] = "FAIL" -> "fail"
          [] t[i] = "SUCCESS" -> "success"
          [] t[i] = "Pass" -> "pass"
          [] t[i] = "PASS" -> "pass"
          [] t[i] = "Failure" -> "failure"
          [] t[i] = "FAILURE" -> "failure"
          [] t[i] = "Fail" -> "fail"
          [] t[i] = "Warning" -> "warning"
          [] t[i] = "WARNING" -> "warning"
          [] t[i] = "Warn" -> "warn"
          [] t[i] = "Bogus" -> "bogus"
          [] t[i] = "OK" -> "ok"
          [] OTHER -> t[i]]

-----------------------------------------------------------------------------
(* CheckResult, types/config.go *)

Success == "Success"
Failure == "Failure"
Warning == "Warning"
Error == "Error"
NoStatus == ""

CheckResult(n, t, s, o, e) == [Name |-> n, Type |-> t, Status |-> s, Output |-> o, Error |-> e]

\* types.CheckResult{}
ZeroResult == CheckResult("", "", NoStatus, <<>>, <<>>)

\* mutant: the status is compared as it was written
ProcessOutputCaseSensitive(checkName, checkType, output) ==
    IF output.error.k = "str" /\ output.error.v # <<>>
    THEN CheckResult(checkName, checkType, Error, <<>>, output.error.v)
    ELSE LET st == IF output.status.k = "str"
                   THEN CASE output.status.v \in {<<"success">>, <<"pass">>} -> <<Success, <<>> >>
                          [] output.status.v \in {<<"failure">>, <<"fail">>} -> <<Failure, <<>> >>
                          [] output.status.v \in {<<"warning">>, <<"warn">>} -> <<Warning, <<>> >>
                          [] OTHER -> <<Error, <<"unknown status: ">> \o output.status.v>>
                   ELSE IF output.output.k # "absent"
                   THEN <<Success, <<>> >>
                   ELSE <<Error, <<"no status or output provided">> >>
         IN CheckResult(checkName, checkType, st[1],
                        IF output.output.k = "str" THEN output.output.v ELSE <<>>,
                        st[2])

\* mutant: the "error" field is looked at only when there is no status string
ProcessOutputStatusFirst(checkName, checkType, output) ==
    IF output.status.k # "str" /\ output.error.k = "str" /\ output.error.v # <<>>
    THEN CheckResult(checkName, checkType, Error, <<>>, output.error.v)
    ELSE LET st == IF output.status.k = "str"
                   THEN CASE ToLower(output.status.v) \in {<<"success">>, <<"pass">>} -> <<Success, <<>> >>
                          [] ToLower(output.status.v) \in {<<"failure">>, <<"fail">>} -> <<Failure, <<>> >>
                          [] ToLower(output.status.v) \in {<<"warning">>, <<"warn">>} -> <<Warning, <<>> >>
                          [] OTHER -> <<Error, <<"unknown status: ">> \o output.status.v>>
                   ELSE IF output.output.k # "absent"
                   THEN <<Success, <<>> >>
                   ELSE <<Error, <<"no status or output provided">> >>
         IN CheckResult(checkName, checkType, st[1],
                        IF output.output.k = "str" THEN output.output.v ELSE <<>>,
                        st[2])

\* Processor.ProcessOutput
ProcessOutput(checkName, checkType, output) ==
    IF output.error.k = "str" /\ output.error.v # <<>>
    THEN CheckResult(checkName, checkType, Error, <<>>, output.error.v)
    ELSE LET st == IF output.status.k = "str"
                   THEN CASE ToLower(output.status.v) \in {<<"success">>, <<"pass">>} -> <<Success, <<>> >>
                          [] ToLower(output.status.v) \in {<<"failure">>, <<"fail">>} -> <<Failure, <<>> >>
                          [] ToLower(output.status.v) \in {<<"warning">>, <<"warn">>} -> <<Warning, <<>> >>
                          [] OTHER -> <<Error, <<"unknown status: ">> \o output.status.v>>
                   ELSE IF output.output.k # "absent"
                   THEN <<Success, <<>> >>
                   ELSE <<Error, <<"no status or output provided">> >>
         IN CheckResult(checkName, checkType, st[1],
                        IF output.output.k = "str" THEN output.output.v ELSE <<>>,
                        st[2])

-----------------------------------------------------------------------------
(* Errors *)

Nil == "nil"
DeadlineExceeded == "context deadline exceeded"
Canceled == "context canceled"
ErrChecksFailure == "one or more checks failed"
ConfigError == "configuration error"
OutputError == "output error"

\* the error run returns; a configuration error names the field it is about
RunErr(e) == [err |-> e, field |-> ""]
ConfigErr(f) == [err |-> ConfigError, field |-> f]
NoErr == RunErr("-")  \* run has not returned

-----------------------------------------------------------------------------
(* The command path of ExecuteCheck once cmd.Wait has returned *)

\* what cmd.Wait returned together with the captured buffers:
\* err is "nil", "exit" (*exec.ExitError with its code) or "other"
WaitResult(e, c, so, se) == [err |-> e, code |-> c, stdout |-> so, stderr |-> se]

\* cmd.Wait for a child that was killed: an ExitError whose ExitCode() is -1
Killed == WaitResult("exit", -1, <<>>, <<>>)

\* mutant: stderr is dropped
CombinedOutputStdoutOnly(w) == TrimSpace(w.stdout)

\* executor.go:149-155
CombinedOutput(w) ==
    LET o == TrimSpace(w.stdout)
    IN IF Len(w.stderr) > 0
       THEN (IF o # <<>> THEN o \o <<"\n">> ELSE o) \o TrimSpace(w.stderr)
       ELSE o

\* mutant: a JSON object on the output is trusted whatever the exit code
CommandResultJsonFirst(check, w) ==
    LET output == CombinedOutput(w)
    IN IF w.err = "other"
       THEN CheckResult(check.Name, check.Type, Error, <<>>, <<"wait: i/o error">>)
       ELSE IF UnmarshalOK(output)
       THEN ProcessOutput(check.Name, check.Type, Unmarshal(output))
       ELSE IF w.err = "exit"
       THEN CheckResult(check.Name, check.Type, Error, output,
                        <<"command failed with exit code ", ToString(w.code)>>)
       ELSE ProcessOutput(check.Name, check.Type, Obj(Absent, StrVal(output), Absent))

\* executor.go:147-192
CommandResult(check, w) ==
    LET output == CombinedOutput(w)
    IN IF w.err = "exit"
       THEN CheckResult(check.Name, check.Type, Error, output,
                        <<"command failed with exit code ", ToString(w.code)>>)
       ELSE IF w.err = "other"
       THEN CheckResult(check.Name, check.Type, Error, <<>>, <<"wait: i/o error">>)
       ELSE IF UnmarshalOK(output)
       THEN ProcessOutput(check.Name, check.Type, Unmarshal(output))
       ELSE ProcessOutput(check.Name, check.Type, Obj(Absent, StrVal(output), Absent))

-----------------------------------------------------------------------------
(* Configuration *)

CheckItem(n, t, c) == [Name |-> n, Type |-> t, Command |-> c]

\* checks.Registry after the init functions of the check packages have run
Registry == {"os.file_exists"}

\* checks.Get
Get(name) == IF name \in Registry THEN Nil ELSE "not found"

Names == {"a", "b"}

Items ==
    {CheckItem(n, "command", "cmd") : n \in Names}
    \cup {CheckItem(n, "command", "") : n \in Names}
    \cup {CheckItem(n, "os.file_exists", "") : n \in Names}
    \cup {CheckItem(n, "bogus", "") : n \in Names}
    \cup {CheckItem("", "command", "cmd"), CheckItem("a", "", "cmd")}

Configs == UNION {[1..n -> Items] : n \in 0..MaxChecks}

\* Manager.validate: Nil, or the field of the ConfigError it returns
Validate(c) ==
    IF Len(c) = 0 THEN "checks"
    ELSE IF \E i \in 1..Len(c) : c[i].Name = "" \/ c[i].Type = "" \/
                                  (c[i].Type # "command" /\ Get(c[i].Type) # Nil)
    THEN LET i == CHOOSE k \in 1..Len(c) :
                    /\ c[k].Name = "" \/ c[k].Type = "" \/ (c[k].Type # "command" /\ Get(c[k].Type) # Nil)
                    /\ \A j \in 1..(k - 1) : ~(c[j].Name = "" \/ c[j].Type = "" \/
                                               (c[j].Type # "command" /\ Get(c[j].Type) # Nil))
         IN IF c[i].Name = "" THEN "check.name"
            ELSE IF c[i].Type = "" THEN "check.type"
            ELSE "check.type"
    ELSE Nil

-----------------------------------------------------------------------------
(* Timeouts, in seconds *)

\* cmd/root.go:336: const defaultTimeout = 30 * time.Second
defaultTimeout == 30

\* a nil *time.Duration; a context or executor that has no duration yet
NoTimeout == -1

\* the Options after flag parsing: Changed tells whether --timeout was on the
\* command line; without it opts.Timeout holds the flag's default
Options(changed, t) == [Changed |-> changed, Timeout |-> t]

DefaultOpts == Options(FALSE, defaultTimeout)

Durations == {0, 5, 60}

OptionSet == {DefaultOpts} \cup {Options(TRUE, t) : t \in Durations \cup {defaultTimeout}}

CfgTimeouts == {NoTimeout} \cup Durations

\* a context without deadline
NoDeadline == NoTimeout

\* a check for which ExecuteCheck has not been entered
NotEntered == [start |-> NoDeadline, at |-> NoDeadline]

\* mutant: the new context ignores the deadline of its parent
WithTimeoutDetached(parent, now, d) == now + d

\* context.WithTimeout(parent, d) called at time now: the deadline of the new
\* context is now + d, unless the parent's deadline is earlier
WithTimeout(parent, now, d) ==
    IF parent # NoDeadline /\ parent < now + d THEN parent ELSE now + d

-----------------------------------------------------------------------------
(* Package checks: the registry *)

\* identifiers that may be registered, and the functions registered for them
Ids == {"os.file_exists", "git.is_up_to_date"}
Fns == {"f", "g"}

\* a key the map does not hold
NoEntry == "none"

\* types.CheckDefinition; the zero value when there is no function
CheckDefinition(id, fn) ==
    IF fn = NoEntry THEN [Name |-> "", Handler |-> ""] ELSE [Name |-> id, Handler |-> fn]

\* sync.RWMutex: the writer that holds it, the number of readers that hold it
Unlocked == [w |-> FALSE, r |-> 0]

Callers == 1..MaxCallers

\* a call in progress: Register holds mu and writes the map; Get and List
\* hold mu for reading and read the map; Lookup is the executor's read of
\* checks.Registry, which takes no lock.  raced: a write overlapped the read.
Calling(op, id, fn) ==
    [op |-> op, id |-> id, fn |-> fn,
     at |-> IF op = "Register" THEN "writing" ELSE "reading", raced |-> FALSE]

IdleCall == [op |-> "idle", id |-> "", fn |-> "", at |-> "idle", raced |-> FALSE]

\* what a call returned; seen is the number of Register writes applied before
\* the call read the map
Returned(op, id, def, err, list, seen) ==
    [op |-> op, id |-> id, def |-> def, err |-> err, list |-> list, seen |-> seen]

NoRes == Returned("none", "", CheckDefinition("", NoEntry), Nil, <<>>, 0)

\* mutant: an identifier that is registered keeps its first function
PutIfAbsent(reg, id, fn) == IF reg[id] = NoEntry THEN [reg EXCEPT ![id] = fn] ELSE reg

\* Registry[name] = types.CheckDefinition{...}
Put(reg, id, fn) == [reg EXCEPT ![id] = fn]

\* the keys of the map
Keys(reg) == {id \in Ids : reg[id] # NoEntry}

\* the orders in which a range over the map may visit its keys
Orders(reg) ==
    {o \in [1..Cardinality(Keys(reg)) -> Keys(reg)] :
        \A i, j \in 1..Cardinality(Keys(reg)) : i # j => o[i] # o[j]}

-----------------------------------------------------------------------------
(* What the environment may do *)

\* a command that runs to its end: cmd.Wait and the buffers
WaitSamples ==
    { WaitResult("nil", 0, <<"x">>, <<>>),
      WaitResult("nil", 0, <<"{\"status\":\"fail\"}">>, <<>>),
      WaitResult("exit", 1, <<>>, <<"e">>) }

\* a native check function that returns: (result, err)
NativeSamples(check) ==
    { [result |-> CheckResult("", "", Success, <<"ok">>, <<>>), err |-> Nil],
      [result |-> CheckResult(check.Name, check.Type, Warning, <<"hm">>, <<>>), err |-> Nil],
      [result |-> ZeroResult, err |-> "boom"] }

NoVal == [err |-> "-"]
NoRet == [err |-> "-"]

-----------------------------------------------------------------------------
(* Initial states *)

Checks == 1..Len(cfg)

NoInp == WaitResult("-", 0, <<>>, <<>>)

NoSnap == [err |-> "none", blocked |-> FALSE, proc |-> "-"]

Idle(c) ==
    /\ pc = [i \in 1..Len(c) |-> "idle"]
    /\ cctx = [i \in 1..Len(c) |-> "none"]
    /\ proc = [i \in 1..Len(c) |-> "none"]
    /\ done = [i \in 1..Len(c) |-> NoVal]
    /\ ret = [i \in 1..Len(c) |-> NoRet]
    /\ resultChan = <<>>
    /\ results = <<>>
    /\ owner = <<>>
    /\ timedOutChecks = <<>>
    /\ failedChecks = <<>>
    /\ remainingChecks = 0
    /\ runErr = NoErr
    /\ exitCode = -1
    /\ crashed = FALSE
    /\ hist = [i \in 1..Len(c) |-> NoSnap]
    /\ sortedResults = <<>>
    /\ written = "no"
    /\ timeout = NoTimeout
    /\ ctxTimeout = NoTimeout
    /\ clock = 0
    /\ deadline = NoDeadline
    /\ cdeadline = [i \in 1..Len(c) |-> NotEntered]

\* package checks is not under study: the registry is as the init functions
\* left it and nobody calls it
RegIdle ==
    /\ registry = [id \in Ids |-> IF id \in Registry THEN "f" ELSE NoEntry]
    /\ mu = Unlocked
    /\ rpc = [c \in Callers |-> IdleCall]
    /\ rres = [c \in Callers |-> NoRes]
    /\ log = <<>>

\* main calls run with the command's context: nothing is loaded yet
InitRun ==
    /\ mode = "run"
    /\ cfg \in Configs
    /\ ctx = "none"
    /\ pcMain = "load"
    /\ Idle(cfg)
    /\ inp = NoInp
    /\ out = ZeroResult
    /\ opts = DefaultOpts
    /\ cfgTimeout = NoTimeout
    /\ execTimeout = NoTimeout
    /\ RegIdle

\* a caller (the executor's tests) hands one check and a cancelable context
\* without deadline to ExecuteCheck
InitDirect ==
    /\ mode = "direct"
    /\ cfg \in [1..1 -> Items]
    /\ ctx = "none"
    /\ pcMain = "caller"
    /\ Idle(cfg)
    /\ inp = NoInp
    /\ out = ZeroResult
    /\ opts = DefaultOpts
    /\ cfgTimeout = NoTimeout
    /\ execTimeout = defaultTimeout
    /\ RegIdle

Init == InitRun \/ InitDirect

-----------------------------------------------------------------------------
(* Executor.ExecuteCheck, one goroutine per check *)

Alive == ~crashed /\ pcMain # "exit"

IsNative(i) == cfg[i].Type \in Registry

\* a goroutine blocked in its select is woken by the first case that becomes
\* ready, and takes that case
Wake(p, i, case) == IF p[i] = "parked" THEN case ELSE p[i]

\* mutant: the channel has one slot fewer than there are checks
CapacityShort == Len(cfg) - 1

\* root.go:509: make(chan checkResult, len(cfg.Checks))
Capacity == Len(cfg)

\* ExecuteCheck returns (r, e); in run the goroutine then sends the
\* checkResult on resultChan (root.go:518-519), which blocks while the
\* channel is full
Return(i, r, e) ==
    /\ mode = "run" => Len(resultChan) < Capacity
    /\ ret' = [ret EXCEPT ![i] = [result |-> r, err |-> e]]
    /\ pc' = [pc EXCEPT ![i] = "returned"]
    /\ resultChan' = IF mode = "run"
                     THEN Append(resultChan, [result |-> r, err |-> e, item |-> cfg[i], idx |-> i])
                     ELSE resultChan

\* mutant: a canceled context is reported like an expired one
CtxOutcomeAlwaysTimeout(i) ==
    [result |-> CheckResult(cfg[i].Name, cfg[i].Type, Error, <<"command execution timed out">>, <<>>),
     err |-> DeadlineExceeded]

\* executor.go:50-60 and 132-146: the case <-ctxWithTimeout.Done()
CtxOutcome(i) ==
    IF cctx[i] = DeadlineExceeded
    THEN [result |-> CheckResult(cfg[i].Name, cfg[i].Type, Error, <<"command execution timed out">>, <<>>),
          err |-> DeadlineExceeded]
    ELSE [result |-> ZeroResult, err |-> cctx[i]]

\* mutant: the invocation error of a native check is returned to the caller
NativeOutcomePropagates(i) ==
    LET result == done[i].result
    IN IF done[i].err # Nil
       THEN [result |-> ZeroResult, err |-> done[i].err]
       ELSE [result |-> [result EXCEPT !.Name = IF @ = "" THEN cfg[i].Name ELSE @,
                                       !.Type = IF @ = "" THEN cfg[i].Type ELSE @],
             err |-> Nil]

\* mutant: a native result keeps the name and type its function gave it
NativeOutcomeNoBackfill(i) ==
    IF done[i].err # Nil
    THEN [result |-> CheckResult(cfg[i].Name, cfg[i].Type, Error, <<>>,
                                 <<"failed to execute check: ", done[i].err>>),
          err |-> Nil]
    ELSE [result |-> done[i].result, err |-> Nil]

\* executor.go:61-80: the case err := <-errChan
NativeOutcome(i) ==
    LET result == done[i].result
    IN IF done[i].err # Nil
       THEN [result |-> CheckResult(cfg[i].Name, cfg[i].Type, Error, <<>>,
                                    <<"failed to execute check: ", done[i].err>>),
             err |-> Nil]
       ELSE [result |-> [result EXCEPT !.Name = IF @ = "" THEN cfg[i].Name ELSE @,
                                       !.Type = IF @ = "" THEN cfg[i].Type ELSE @],
             err |-> Nil]

\* executor.go:147-192: the case err := <-done
DoneOutcome(i) ==
    IF IsNative(i) THEN NativeOutcome(i)
    ELSE [result |-> CommandResult(cfg[i], done[i]), err |-> Nil]

\* executor.go:34-101: derive the context, look the type up, start the
\* native function in its goroutine or reject the check
ExecBegin(i) ==
    /\ Alive
    /\ pc[i] = "start"
    /\ cctx' = [cctx EXCEPT ![i] = ctx]
    /\ UNCHANGED <<timeVars, regVars, tmoVars, outVars, mode, cfg, ctx, pcMain, done, results, owner, timedOutChecks, failedChecks,
                   remainingChecks, runErr, exitCode, crashed, hist, inp, out>>
    /\ IF IsNative(i)
       THEN /\ proc' = [proc EXCEPT ![i] = "running"]
            /\ pc' = [pc EXCEPT ![i] = "select"]
            /\ UNCHANGED <<ret, resultChan>>
       ELSE IF cfg[i].Type # "command"
       THEN /\ Return(i, CheckResult(cfg[i].Name, cfg[i].Type, Error,
                                     <<"unsupported check type: ">> \o Str(cfg[i].Type), <<>>), Nil)
            /\ UNCHANGED proc
       ELSE IF cfg[i].Command = ""
       THEN /\ Return(i, CheckResult(cfg[i].Name, cfg[i].Type, Error, <<"no command specified">>, <<>>), Nil)
            /\ UNCHANGED proc
       ELSE /\ pc' = [pc EXCEPT ![i] = "startcmd"]
            /\ UNCHANGED <<proc, ret, resultChan>>

\* executor.go:104-129: cmd.Start, which fails when the context is already
\* done or when the shell cannot be started, then the goroutine on cmd.Wait
CmdStart(i) ==
    /\ Alive
    /\ pc[i] = "startcmd"
    /\ UNCHANGED <<timeVars, regVars, tmoVars, outVars, mode, cfg, ctx, pcMain, cctx, done, results, owner, timedOutChecks, failedChecks,
                   remainingChecks, runErr, exitCode, crashed, hist, inp, out>>
    /\ IF cctx[i] # "none"
       THEN /\ Return(i, CheckResult(cfg[i].Name, cfg[i].Type, Error, <<>>,
                                     <<"failed to start command: ", cctx[i]>>), Nil)
            /\ UNCHANGED proc
       ELSE \E started \in BOOLEAN :
              IF started
              THEN /\ proc' = [proc EXCEPT ![i] = "running"]
                   /\ pc' = [pc EXCEPT ![i] = "select"]
                   /\ UNCHANGED <<ret, resultChan>>
              ELSE /\ Return(i, CheckResult(cfg[i].Name, cfg[i].Type, Error, <<>>,
                                            <<"failed to start command: ", "exec: not found">>), Nil)
                   /\ UNCHANGED proc

\* executor.go:50 and 132: the select statement is reached.  With a ready
\* case it takes one of the ready cases; with none it blocks.
Select(i) ==
    /\ Alive
    /\ pc[i] = "select"
    /\ UNCHANGED <<timeVars, regVars, tmoVars, outVars, mode, cfg, ctx, pcMain, cctx, proc, done, results, owner, timedOutChecks,
                   failedChecks, remainingChecks, runErr, exitCode, crashed, hist, inp, out>>
    /\ IF cctx[i] = "none" /\ done[i] = NoVal
       THEN /\ pc' = [pc EXCEPT ![i] = "parked"]
            /\ UNCHANGED <<ret, resultChan>>
       ELSE \/ /\ cctx[i] # "none"
               /\ Return(i, CtxOutcome(i).result, CtxOutcome(i).err)
            \/ /\ done[i] # NoVal
               /\ Return(i, DoneOutcome(i).result, DoneOutcome(i).err)

\* the blocked select resumes with the case that woke it
Resume(i) ==
    /\ Alive
    /\ pc[i] \in {"wokeCtx", "wokeDone"}
    /\ UNCHANGED <<timeVars, regVars, tmoVars, outVars, mode, cfg, ctx, pcMain, cctx, proc, done, results, owner, timedOutChecks,
                   failedChecks, remainingChecks, runErr, exitCode, crashed, hist, inp, out>>
    /\ IF pc[i] = "wokeCtx"
       THEN Return(i, CtxOutcome(i).result, CtxOutcome(i).err)
       ELSE Return(i, DoneOutcome(i).result, DoneOutcome(i).err)

-----------------------------------------------------------------------------
(* The helper goroutines and what they wait for *)

\* the child process ends by itself; cmd.Wait returns and the goroutine of
\* executor.go:127-129 sends on done (capacity 1)
ProcExit(i) ==
    /\ Alive
    /\ ~IsNative(i)
    /\ proc[i] = "running"
    /\ \E w \in WaitSamples : done' = [done EXCEPT ![i] = w]
    /\ proc' = [proc EXCEPT ![i] = "exited"]
    /\ pc' = [pc EXCEPT ![i] = Wake(pc, i, "wokeDone")]
    /\ UNCHANGED <<timeVars, regVars, tmoVars, outVars, mode, cfg, ctx, pcMain, cctx, ret, resultChan, results, owner, timedOutChecks,
                   failedChecks, remainingChecks, runErr, exitCode, crashed, hist, inp, out>>

\* exec.CommandContext (executor.go:104) and cmd.Process.Kill
\* (executor.go:135-137) kill the child once ctxWithTimeout is done
ProcKilled(i) ==
    /\ Alive
    /\ ~IsNative(i)
    /\ proc[i] = "running"
    /\ cctx[i] # "none"
    /\ done' = [done EXCEPT ![i] = Killed]
    /\ proc' = [proc EXCEPT ![i] = "exited"]
    /\ pc' = [pc EXCEPT ![i] = Wake(pc, i, "wokeDone")]
    /\ UNCHANGED <<timeVars, regVars, tmoVars, outVars, mode, cfg, ctx, pcMain, cctx, ret, resultChan, results, owner, timedOutChecks,
                   failedChecks, remainingChecks, runErr, exitCode, crashed, hist, inp, out>>

\* executor.go:43-47: checkFunc.Func returns and both values are sent
NativeReturn(i) ==
    /\ Alive
    /\ IsNative(i)
    /\ proc[i] = "running"
    /\ \E r \in NativeSamples(cfg[i]) : done' = [done EXCEPT ![i] = r]
    /\ proc' = [proc EXCEPT ![i] = "exited"]
    /\ pc' = [pc EXCEPT ![i] = Wake(pc, i, "wokeDone")]
    /\ UNCHANGED <<timeVars, regVars, tmoVars, outVars, mode, cfg, ctx, pcMain, cctx, ret, resultChan, results, owner, timedOutChecks,
                   failedChecks, remainingChecks, runErr, exitCode, crashed, hist, inp, out>>

\* executor.go:43-47: checkFunc.Func panics; nothing recovers in the
\* goroutine, so the Go runtime ends the whole process
NativePanic(i) ==
    /\ Alive
    /\ IsNative(i)
    /\ proc[i] = "running"
    /\ proc' = [proc EXCEPT ![i] = "panicked"]
    /\ crashed' = TRUE
    /\ exitCode' = 2
    /\ UNCHANGED <<timeVars, regVars, tmoVars, outVars, mode, cfg, ctx, pcMain, pc, cctx, done, ret, resultChan, results, owner,
                   timedOutChecks, failedChecks, remainingChecks, runErr, hist, inp, out>>

-----------------------------------------------------------------------------
(* Contexts *)

\* ctxWithTimeout exists from ExecBegin until ExecuteCheck returns
HasCtx(i) == pc[i] \notin {"idle", "start", "returned"}

\* the caller's context becomes done with error e: every derived context
\* that is not done yet becomes done with the same error
CtxDone(e) ==
    /\ ctx' = e
    /\ cctx' = [i \in Checks |-> IF HasCtx(i) /\ cctx[i] = "none" THEN e ELSE cctx[i]]
    /\ pc' = [i \in Checks |-> IF cctx[i] = "none" THEN Wake(pc, i, "wokeCtx") ELSE pc[i]]
    /\ hist' = [i \in Checks |-> IF hist[i] = NoSnap /\ pc[i] # "returned"
                                 THEN [err |-> e, blocked |-> pc[i] = "parked", proc |-> proc[i]]
                                 ELSE hist[i]]

\* root.go:497: the timer of run's context fires.  The per-check contexts
\* are derived from it with the same duration, so their deadline is run's.
Expire ==
    /\ Alive
    /\ mode = "run"
    /\ pcMain \in {"spawn", "collect"}
    /\ ctx = "none"
    /\ CtxDone(DeadlineExceeded)
    /\ UNCHANGED <<timeVars, regVars, tmoVars, outVars, mode, cfg, pcMain, proc, done, ret, resultChan, results, owner, timedOutChecks,
                   failedChecks, remainingChecks, runErr, exitCode, crashed, inp, out>>

\* main.go:15-24 (SIGINT/SIGTERM), or the caller of ExecuteCheck, cancels
Cancel ==
    /\ Alive
    /\ pcMain \in {"spawn", "collect", "caller"}
    /\ ctx = "none"
    /\ CtxDone(Canceled)
    /\ UNCHANGED <<timeVars, regVars, tmoVars, outVars, mode, cfg, pcMain, proc, done, ret, resultChan, results, owner, timedOutChecks,
                   failedChecks, remainingChecks, runErr, exitCode, crashed, inp, out>>

\* executor.go:34: the timer of ctxWithTimeout fires; it has a timer of its
\* own only when the caller's context has no earlier deadline
PerCheckTimeout(i) ==
    /\ Alive
    /\ mode = "direct"
    /\ HasCtx(i)
    /\ cctx[i] = "none"
    /\ cctx' = [cctx EXCEPT ![i] = DeadlineExceeded]
    /\ pc' = [pc EXCEPT ![i] = Wake(pc, i, "wokeCtx")]
    /\ hist' = [hist EXCEPT ![i] = [err |-> DeadlineExceeded, blocked |-> pc[i] = "parked", proc |-> proc[i]]]
    /\ UNCHANGED <<timeVars, regVars, tmoVars, outVars, mode, cfg, ctx, pcMain, proc, done, ret, resultChan, results, owner, timedOutChecks,
                   failedChecks, remainingChecks, runErr, exitCode, crashed, inp, out>>

\* the caller of the executor's tests calls ExecuteCheck
Call(i) ==
    /\ Alive
    /\ mode = "direct"
    /\ pc[i] = "idle"
    /\ pc' = [pc EXCEPT ![i] = "start"]
    /\ UNCHANGED <<timeVars, regVars, tmoVars, outVars, mode, cfg, ctx, pcMain, cctx, proc, done, ret, resultChan, results, owner,
                   timedOutChecks, failedChecks, remainingChecks, runErr, exitCode, crashed,
                   hist, inp, out>>

-----------------------------------------------------------------------------
(* cmd.run *)

\* main.go:28-31: any error of the root command ends the process with 1
ExitStatus(err) == IF err = Nil THEN 0 ELSE 1

\* root.go:478-487: the configuration file is read, parsed and validated;
\* any failure makes run return a configuration error
LoadConfig ==
    /\ ~crashed
    /\ pcMain = "load"
    /\ \E read \in {Nil, "file", "parse"} :
         LET err == IF read # Nil THEN read ELSE Validate(cfg)
         IN IF err = Nil
            THEN /\ pcMain' = "spawn"
                 /\ UNCHANGED <<runErr, exitCode>>
            ELSE /\ pcMain' = "exit"
                 /\ runErr' = ConfigErr(err)
                 /\ exitCode' = ExitStatus(ConfigError)
    /\ UNCHANGED <<timeVars, regVars, tmoVars, outVars, mode, cfg, ctx, pc, cctx, proc, done, ret, resultChan, results, owner,
                   timedOutChecks, failedChecks, remainingChecks, crashed, hist, inp, out>>

\* mutant: the timeout of the configuration file is used whenever it is there
EffectiveTimeoutConfigFirst(o, c) ==
    IF c # NoTimeout THEN c ELSE o.Timeout

\* root.go:489-494: the flag value, unless the flag was not set and the
\* configuration file has a timeout
EffectiveTimeout(o, c) ==
    IF ~o.Changed /\ c # NoTimeout THEN c ELSE o.Timeout

\* mutant: only the goroutine of the first check is started
SpawnFirstOnly ==
    /\ ~crashed
    /\ pcMain = "spawn"
    /\ timeout' = EffectiveTimeout(opts, cfgTimeout)
    /\ ctxTimeout' = timeout'
    /\ execTimeout' = timeout'
    /\ pc' = [i \in Checks |-> IF i = 1 THEN "start" ELSE "idle"]
    /\ remainingChecks' = Len(cfg)
    /\ pcMain' = "collect"
    /\ UNCHANGED <<timeVars, regVars, outVars, opts, cfgTimeout, mode, cfg, ctx, cctx, proc, done, ret,
                   resultChan, results, owner, timedOutChecks, failedChecks, runErr, exitCode,
                   crashed, hist, inp, out>>

\* root.go:489-527: the timeout, the context with timeout, the executor, the
\* channel of capacity len(cfg.Checks), one goroutine per check, the counters
Spawn ==
    /\ ~crashed
    /\ pcMain = "spawn"
    /\ timeout' = EffectiveTimeout(opts, cfgTimeout)
    /\ ctxTimeout' = timeout'
    /\ execTimeout' = timeout'
    /\ pc' = [i \in Checks |-> "start"]
    /\ remainingChecks' = Len(cfg)
    /\ pcMain' = "collect"
    /\ UNCHANGED <<timeVars, regVars, outVars, opts, cfgTimeout, mode, cfg, ctx, cctx, proc, done, ret,
                   resultChan, results, owner, timedOutChecks, failedChecks, runErr, exitCode,
                   crashed, hist, inp, out>>

TimedOutResult(item) ==
    CheckResult(item.Name, item.Type, Error, <<"check execution timed out">>, <<>>)

\* mutant: a check that timed out is not added to the failed checks
RECURSIVE AddTimeoutsNotFailed(_, _)
AddTimeoutsNotFailed(k, acc) ==
    IF k > Len(cfg) THEN acc
    ELSE IF \E j \in 1..Len(acc.results) : acc.results[j].Name = cfg[k].Name
    THEN AddTimeoutsNotFailed(k + 1, acc)
    ELSE AddTimeoutsNotFailed(k + 1,
            [results |-> Append(acc.results, TimedOutResult(cfg[k])),
             owner |-> Append(acc.owner, k),
             timedOut |-> Append(acc.timedOut, cfg[k]),
             failed |-> acc.failed])

\* root.go:534-553: the loop over cfg.Checks from position k on; a check is
\* skipped when results already holds an element with its name
RECURSIVE AddTimeouts(_, _)
AddTimeouts(k, acc) ==
    IF k > Len(cfg) THEN acc
    ELSE IF \E j \in 1..Len(acc.results) : acc.results[j].Name = cfg[k].Name
    THEN AddTimeouts(k + 1, acc)
    ELSE AddTimeouts(k + 1,
            [results |-> Append(acc.results, TimedOutResult(cfg[k])),
             owner |-> Append(acc.owner, k),
             timedOut |-> Append(acc.timedOut, cfg[k]),
             failed |-> Append(acc.failed, cfg[k].Name)])

\* mutant: the loop condition is never looked at again
AfterCollectNever(remaining) == "collect"

\* the collection loop is left when remainingChecks is 0
AfterCollect(remaining) == IF remaining > 0 THEN "collect" ELSE "write"

\* root.go:531-554: case <-ctx.Done()
CollectTimeout ==
    /\ ~crashed
    /\ pcMain = "collect"
    /\ remainingChecks > 0
    /\ ctx # "none"
    /\ LET acc == AddTimeouts(1, [results |-> results, owner |-> owner,
                                  timedOut |-> timedOutChecks, failed |-> failedChecks])
       IN /\ results' = acc.results
          /\ owner' = acc.owner
          /\ timedOutChecks' = acc.timedOut
          /\ failedChecks' = acc.failed
    /\ remainingChecks' = 0
    /\ pcMain' = AfterCollect(0)
    /\ UNCHANGED <<timeVars, regVars, tmoVars, outVars, mode, cfg, ctx, pc, cctx, proc, done, ret, resultChan, runErr, exitCode,
                   crashed, hist, inp, out>>

\* root.go:555-583: case res := <-resultChan
CollectResult ==
    /\ ~crashed
    /\ pcMain = "collect"
    /\ remainingChecks > 0
    /\ resultChan # <<>>
    /\ LET res == Head(resultChan)
       IN /\ resultChan' = Tail(resultChan)
          /\ owner' = Append(owner, res.idx)
          /\ IF res.err = DeadlineExceeded
             THEN /\ timedOutChecks' = Append(timedOutChecks, res.item)
                  /\ results' = Append(results, TimedOutResult(res.item))
                  /\ failedChecks' = Append(failedChecks, res.item.Name)
             ELSE IF res.err # Nil
             THEN /\ results' = Append(results,
                                   CheckResult(res.item.Name, res.item.Type, Error,
                                               <<"check failed: ", res.err>>, <<>>))
                  /\ failedChecks' = Append(failedChecks, res.item.Name)
                  /\ UNCHANGED timedOutChecks
             ELSE IF res.result.Status # Success
             THEN /\ failedChecks' = Append(failedChecks, res.item.Name)
                  /\ results' = Append(results, res.result)
                  /\ UNCHANGED timedOutChecks
             ELSE /\ results' = Append(results, res.result)
                  /\ UNCHANGED <<timedOutChecks, failedChecks>>
    /\ remainingChecks' = remainingChecks - 1
    /\ pcMain' = AfterCollect(remainingChecks - 1)
    /\ UNCHANGED <<timeVars, regVars, tmoVars, outVars, mode, cfg, ctx, pc, cctx, proc, done, ret, runErr, exitCode,
                   crashed, hist, inp, out>>

\* mutant: the failed checks are looked at before the timed-out ones
SummaryFailedFirst(timedOut, failed) ==
    IF Len(failed) > 0 THEN ErrChecksFailure
    ELSE IF Len(timedOut) > 0 THEN DeadlineExceeded
    ELSE Nil

\* root.go:646-665: the error run returns once the output is written
Summary(timedOut, failed) ==
    IF Len(timedOut) > 0 THEN DeadlineExceeded
    ELSE IF Len(failed) > 0 THEN ErrChecksFailure
    ELSE Nil

\* the order of the names that occur: the byte order of Go's string <
NameRank(n) == CASE n = "" -> 0 [] n = "a" -> 1 [] n = "b" -> 2 [] OTHER -> 3

\* the less function of root.go:593-595
Less(x, y) == NameRank(x.Name) < NameRank(y.Name)

\* one pass of the insertion sort sort.Slice uses on a short slice: x moves
\* to the left while it is less than the element before it
RECURSIVE Insert(_, _)
Insert(s, x) ==
    IF s = <<>> THEN <<x>>
    ELSE IF Less(x, s[Len(s)]) THEN Append(Insert(SubSeq(s, 1, Len(s) - 1), x), s[Len(s)])
    ELSE Append(s, x)

\* root.go:590-595: sort.Slice on a copy of results
RECURSIVE SortByName(_)
SortByName(s) ==
    IF s = <<>> THEN <<>>
    ELSE Insert(SortByName(SubSeq(s, 1, Len(s) - 1)), s[Len(s)])

\* root.go:587-665 and main.go:28-31: the results are sorted, formatted and
\* written (the write may fail), run returns, main sets the exit status
Finish ==
    /\ ~crashed
    /\ pcMain = "write"
    /\ sortedResults' = SortByName(results)
    /\ \E ok \in BOOLEAN :
         /\ written' = IF ok THEN "yes" ELSE "failed"
         /\ runErr' = RunErr(IF ok THEN Summary(timedOutChecks, failedChecks) ELSE OutputError)
    /\ exitCode' = ExitStatus(runErr'.err)
    /\ pcMain' = "exit"
    /\ UNCHANGED <<timeVars, regVars, tmoVars, mode, cfg, ctx, pc, cctx, proc, done, ret, resultChan,
                   results, owner, timedOutChecks, failedChecks, remainingChecks, crashed,
                   hist, inp, out>>

-----------------------------------------------------------------------------

Next ==
    \/ LoadConfig
    \/ Spawn
    \/ CollectTimeout
    \/ CollectResult
    \/ Finish
    \/ Expire
    \/ Cancel
    \/ \E i \in Checks : Call(i)
    \/ \E i \in Checks : ExecBegin(i)
    \/ \E i \in Checks : CmdStart(i)
    \/ \E i \in Checks : Select(i)
    \/ \E i \in Checks : Resume(i)
    \/ \E i \in Checks : ProcExit(i)
    \/ \E i \in Checks : ProcKilled(i)
    \/ \E i \in Checks : NativeReturn(i)
    \/ \E i \in Checks : NativePanic(i)
    \/ \E i \in Checks : PerCheckTimeout(i)

Spec == Init /\ [][Next]_vars

\* What the Go scheduler and the timers guarantee: a goroutine that can take a
\* step takes it, the timer of a context with timeout fires, a killed child
\* ends.  Nothing makes a child process or a native check function end by
\* itself, a caller cancel, or a function panic.
Fairness ==
    /\ WF_vars(LoadConfig)
    /\ WF_vars(Spawn)
    /\ WF_vars(CollectTimeout)
    /\ WF_vars(CollectResult)
    /\ WF_vars(Finish)
    /\ WF_vars(Expire)
    /\ \A i \in 1..MaxChecks :
         /\ WF_vars(i \in Checks /\ ExecBegin(i))
         /\ WF_vars(i \in Checks /\ CmdStart(i))
         /\ WF_vars(i \in Checks /\ Select(i))
         /\ WF_vars(i \in Checks /\ Resume(i))
         /\ WF_vars(i \in Checks /\ ProcKilled(i))
         /\ WF_vars(i \in Checks /\ PerCheckTimeout(i))

\* the checks of the runs whose infinite behaviours are explored: a command
\* and a native check, each of which may occur twice
LiveItems == {CheckItem("a", "command", "cmd"), CheckItem("b", "os.file_exists", "")}

InitLive ==
    /\ Init
    /\ \A i \in Checks : cfg[i] \in LiveItems

SpecLive == InitLive /\ [][Next]_vars /\ Fairness

-----------------------------------------------------------------------------
(* The output mapping alone: ExecuteCheck on a command that has ended *)

CmdAtoms == {" ", "\n", "x", "null", "{\"status\":\"fail\"}",
             "{\"status\":\"success\",\"output\":\"ok\"}"}

Texts == UNION {[1..n -> CmdAtoms] : n \in 0..MaxTextLen}

CmdInputs ==
    {w \in [err : {"nil", "exit", "other"}, code : {0, 1, 127}, stdout : Texts, stderr : Texts] :
        (w.err = "exit") <=> (w.code # 0)}

InitCmd ==
    /\ mode = "cmd"
    /\ cfg = <<CheckItem("a", "command", "cmd")>>
    /\ ctx = "none"
    /\ pcMain = "cmd"
    /\ Idle(cfg)
    /\ inp \in CmdInputs
    /\ out = ZeroResult
    /\ opts = DefaultOpts
    /\ cfgTimeout = NoTimeout
    /\ execTimeout = defaultTimeout
    /\ RegIdle

\* executor.go:147-192 applied to the ended command inp
MapOutput ==
    /\ mode = "cmd"
    /\ pcMain = "cmd"
    /\ out' = CommandResult(cfg[1], inp)
    /\ pcMain' = "mapped"
    /\ UNCHANGED <<timeVars, regVars, tmoVars, outVars, mode, cfg, ctx, pc, cctx, proc, done, ret, resultChan, results, owner,
                   timedOutChecks, failedChecks, remainingChecks, runErr, exitCode, crashed,
                   hist, inp>>

NextCmd == MapOutput

SpecCmd == InitCmd /\ [][NextCmd]_vars

-----------------------------------------------------------------------------
(* ProcessOutput alone, on the maps a check may hand to it *)

StatusStrings ==
    { <<"success">>, <<"Success">>, <<"SUCCESS">>, <<"pass">>, <<"Pass">>, <<"PASS">>,
      <<"failure">>, <<"Failure">>, <<"FAILURE">>, <<"fail">>, <<"Fail">>, <<"FAIL">>,
      <<"warning">>, <<"Warning">>, <<"WARNING">>, <<"warn">>, <<"Warn">>, <<"WARN">>,
      <<"bogus">>, <<"Bogus">>, <<"ok">>, <<"OK">>, <<"passed">>, <<"success", " ">>, <<>> }

ProcMaps ==
    { Obj(s, o, e) :
        s \in {Absent, NonStr} \cup {StrVal(t) : t \in StatusStrings},
        o \in {Absent, NonStr, StrVal(<<>>), StrVal(<<"x">>)},
        e \in {Absent, NonStr, StrVal(<<>>), StrVal(<<"boom">>)} }

ProcInputs ==
    { [checkName |-> n, checkType |-> t, output |-> m] :
        n \in Names, t \in {"command", "os.file_exists"}, m \in ProcMaps }

InitProc ==
    /\ mode = "proc"
    /\ cfg = <<>>
    /\ ctx = "none"
    /\ pcMain = "proc"
    /\ Idle(cfg)
    /\ inp \in ProcInputs
    /\ out = ZeroResult
    /\ opts = DefaultOpts
    /\ cfgTimeout = NoTimeout
    /\ execTimeout = NoTimeout
    /\ RegIdle

\* p.ProcessOutput(checkName, checkType, output)
Process ==
    /\ mode = "proc"
    /\ pcMain = "proc"
    /\ out' = ProcessOutput(inp.checkName, inp.checkType, inp.output)
    /\ pcMain' = "processed"
    /\ UNCHANGED <<timeVars, regVars, tmoVars, outVars, mode, cfg, ctx, pc, cctx, proc, done, ret,
                   resultChan, results, owner, timedOutChecks, failedChecks, remainingChecks,
                   runErr, exitCode, crashed, hist, inp>>

NextProc == Process

SpecProc == InitProc /\ [][NextProc]_vars

-----------------------------------------------------------------------------
(* run and ExecuteCheck on one check, over the timeouts that may be given *)

InitTimeout ==
    /\ mode \in {"run", "direct"}
    /\ cfg \in [1..1 -> Items]
    /\ ctx = "none"
    /\ pcMain = IF mode = "run" THEN "load" ELSE "caller"
    /\ Idle(cfg)
    /\ inp = NoInp
    /\ out = ZeroResult
    /\ opts \in (IF mode = "run" THEN OptionSet ELSE {DefaultOpts})
    /\ cfgTimeout \in (IF mode = "run" THEN CfgTimeouts ELSE {NoTimeout})
    /\ execTimeout \in (IF mode = "run" THEN {NoTimeout} ELSE Durations)
    /\ RegIdle

SpecTimeout == InitTimeout /\ [][Next]_vars

-----------------------------------------------------------------------------
(* The deadlines of run's context and of the contexts of its checks, with a   *)
(* clock                                                                      *)

InitDeadline ==
    /\ mode = "deadline"
    /\ cfg = <<CheckItem("a", "command", "cmd"), CheckItem("b", "os.file_exists", "")>>
    /\ ctx = "none"
    /\ pcMain = "ctx"
    /\ Idle(cfg)
    /\ inp = NoInp
    /\ out = ZeroResult
    /\ opts \in {DefaultOpts} \cup {Options(TRUE, t) : t \in 0..MaxClock}
    /\ cfgTimeout \in {NoTimeout} \cup 0..MaxClock
    /\ execTimeout = NoTimeout
    /\ RegIdle

\* time passes
Tick ==
    /\ mode = "deadline"
    /\ clock < MaxClock
    /\ clock' = clock + 1
    /\ UNCHANGED <<regVars, tmoVars, outVars, mode, cfg, ctx, pcMain, pc, cctx, proc, done, ret,
                   resultChan, results, owner, timedOutChecks, failedChecks, remainingChecks,
                   runErr, exitCode, crashed, hist, inp, out, deadline, cdeadline>>

\* root.go:489-521: the timeout, run's context with that timeout, the
\* executor with the same timeout, one goroutine per check
RunContext ==
    /\ mode = "deadline"
    /\ pcMain = "ctx"
    /\ timeout' = EffectiveTimeout(opts, cfgTimeout)
    /\ ctxTimeout' = timeout'
    /\ execTimeout' = timeout'
    /\ deadline' = WithTimeout(NoDeadline, clock, timeout')
    /\ pc' = [i \in Checks |-> "start"]
    /\ pcMain' = "collect"
    /\ UNCHANGED <<regVars, outVars, opts, cfgTimeout, mode, cfg, ctx, cctx, proc, done, ret,
                   resultChan, results, owner, timedOutChecks, failedChecks, remainingChecks,
                   runErr, exitCode, crashed, hist, inp, out, clock, cdeadline>>

\* executor.go:32-35: ExecuteCheck is entered for check i and derives
\* ctxWithTimeout from run's context, which may be done already
CheckContext(i) ==
    /\ mode = "deadline"
    /\ pc[i] = "start"
    /\ cdeadline' = [cdeadline EXCEPT ![i] =
                        [start |-> clock, at |-> WithTimeout(deadline, clock, execTimeout)]]
    /\ cctx' = [cctx EXCEPT ![i] = ctx]
    /\ pc' = [pc EXCEPT ![i] = "select"]
    /\ UNCHANGED <<regVars, tmoVars, outVars, mode, cfg, ctx, pcMain, proc, done, ret,
                   resultChan, results, owner, timedOutChecks, failedChecks, remainingChecks,
                   runErr, exitCode, crashed, hist, inp, out, clock, deadline>>

\* the timer of run's context fires, at its deadline or later: the context
\* and every context derived from it are done
RunDeadline ==
    /\ mode = "deadline"
    /\ pcMain = "collect"
    /\ ctx = "none"
    /\ clock >= deadline
    /\ ctx' = DeadlineExceeded
    /\ cctx' = [i \in Checks |->
                  IF pc[i] = "select" /\ cctx[i] = "none" THEN DeadlineExceeded ELSE cctx[i]]
    /\ UNCHANGED <<regVars, tmoVars, outVars, mode, cfg, pcMain, pc, proc, done, ret,
                   resultChan, results, owner, timedOutChecks, failedChecks, remainingChecks,
                   runErr, exitCode, crashed, hist, inp, out, timeVars>>

\* the timer of check i's ctxWithTimeout fires, at its deadline or later
CheckDeadline(i) ==
    /\ mode = "deadline"
    /\ pc[i] = "select"
    /\ cctx[i] = "none"
    /\ clock >= cdeadline[i].at
    /\ cctx' = [cctx EXCEPT ![i] = DeadlineExceeded]
    /\ UNCHANGED <<regVars, tmoVars, outVars, mode, cfg, ctx, pcMain, pc, proc, done, ret,
                   resultChan, results, owner, timedOutChecks, failedChecks, remainingChecks,
                   runErr, exitCode, crashed, hist, inp, out, timeVars>>

NextDeadline ==
    \/ Tick
    \/ RunContext
    \/ RunDeadline
    \/ \E i \in Checks : CheckContext(i)
    \/ \E i \in Checks : CheckDeadline(i)

SpecDeadline == InitDeadline /\ [][NextDeadline]_vars

-----------------------------------------------------------------------------
(* Package checks under concurrent callers: Register, Get, List and the       *)
(* executor's lookup of checks.Registry                                       *)

runVars == <<mode, cfg, ctx, pcMain, pc, cctx, proc, done, ret, resultChan, results, owner,
             timedOutChecks, failedChecks, remainingChecks, runErr, hist, inp, out, timeVars>>

\* var Registry = make(map[string]types.CheckDefinition); mu sync.RWMutex
InitReg ==
    /\ mode = "registry"
    /\ cfg = <<>>
    /\ ctx = "none"
    /\ pcMain = "registry"
    /\ Idle(cfg)
    /\ inp = NoInp
    /\ out = ZeroResult
    /\ opts = DefaultOpts
    /\ cfgTimeout = NoTimeout
    /\ execTimeout = NoTimeout
    /\ registry = [id \in Ids |-> NoEntry]
    /\ mu = Unlocked
    /\ rpc = [c \in Callers |-> IdleCall]
    /\ rres = [c \in Callers |-> NoRes]
    /\ log = <<>>

RegAlive == mode = "registry" /\ ~crashed

\* Register: mu.Lock() succeeds and the map assignment begins; a lookup
\* that is reading the map at this moment is overlapped by the write
RegisterBegin(c, id, fn) ==
    /\ RegAlive
    /\ rpc[c] = IdleCall
    /\ Len(log) < MaxRegisters
    /\ mu = Unlocked
    /\ mu' = [mu EXCEPT !.w = TRUE]
    /\ rpc' = [d \in Callers |->
                 IF d = c THEN Calling("Register", id, fn)
                 ELSE IF rpc[d].op = "Lookup" THEN [rpc[d] EXCEPT !.raced = TRUE]
                 ELSE rpc[d]]
    /\ UNCHANGED <<runVars, tmoVars, outVars, exitCode, crashed, registry, rres, log>>

\* Register: the map assignment ends, the deferred mu.Unlock() runs
RegisterEnd(c) ==
    /\ RegAlive
    /\ rpc[c].op = "Register"
    /\ registry' = Put(registry, rpc[c].id, rpc[c].fn)
    /\ log' = Append(log, [id |-> rpc[c].id, fn |-> rpc[c].fn])
    /\ mu' = [mu EXCEPT !.w = FALSE]
    /\ rpc' = [rpc EXCEPT ![c] = IdleCall]
    /\ rres' = [rres EXCEPT ![c] = Returned("Register", rpc[c].id, CheckDefinition("", NoEntry),
                                            Nil, <<>>, Len(log'))]
    /\ UNCHANGED <<runVars, tmoVars, outVars, exitCode, crashed>>

\* Get: mu.RLock() succeeds
GetBegin(c, id) ==
    /\ RegAlive
    /\ rpc[c] = IdleCall
    /\ ~mu.w
    /\ mu' = [mu EXCEPT !.r = @ + 1]
    /\ rpc' = [rpc EXCEPT ![c] = Calling("Get", id, "")]
    /\ UNCHANGED <<runVars, tmoVars, outVars, exitCode, crashed, registry, rres, log>>

\* Get: the map is read, the deferred mu.RUnlock() runs, Get returns
GetEnd(c) ==
    /\ RegAlive
    /\ rpc[c].op = "Get"
    /\ rres' = [rres EXCEPT ![c] =
                   Returned("Get", rpc[c].id, CheckDefinition(rpc[c].id, registry[rpc[c].id]),
                            IF registry[rpc[c].id] = NoEntry THEN "not found" ELSE Nil,
                            <<>>, Len(log))]
    /\ mu' = [mu EXCEPT !.r = @ - 1]
    /\ rpc' = [rpc EXCEPT ![c] = IdleCall]
    /\ UNCHANGED <<runVars, tmoVars, outVars, exitCode, crashed, registry, log>>

\* List: mu.RLock() succeeds
ListBegin(c) ==
    /\ RegAlive
    /\ rpc[c] = IdleCall
    /\ ~mu.w
    /\ mu' = [mu EXCEPT !.r = @ + 1]
    /\ rpc' = [rpc EXCEPT ![c] = Calling("List", "", "")]
    /\ UNCHANGED <<runVars, tmoVars, outVars, exitCode, crashed, registry, rres, log>>

\* List: the range over the map, in the order the runtime picks, then the
\* deferred mu.RUnlock()
ListEnd(c) ==
    /\ RegAlive
    /\ rpc[c].op = "List"
    /\ \E o \in Orders(registry) :
         rres' = [rres EXCEPT ![c] =
                    Returned("List", "", CheckDefinition("", NoEntry), Nil,
                             [i \in 1..Len(o) |-> CheckDefinition(o[i], registry[o[i]])],
                             Len(log))]
    /\ mu' = [mu EXCEPT !.r = @ - 1]
    /\ rpc' = [rpc EXCEPT ![c] = IdleCall]
    /\ UNCHANGED <<runVars, tmoVars, outVars, exitCode, crashed, registry, log>>

\* executor.go:38: checks.Registry[check.Type] is read without mu; the read
\* begins, overlapped or not by a Register that is writing
LookupBegin(c, id) ==
    /\ RegAlive
    /\ rpc[c] = IdleCall
    /\ rpc' = [rpc EXCEPT ![c] = [Calling("Lookup", id, "") EXCEPT !.raced = mu.w]]
    /\ UNCHANGED <<runVars, tmoVars, outVars, exitCode, crashed, registry, mu, rres, log>>

\* executor.go:38: the read ends.  A read that a write overlapped is a data
\* race on a Go map: the runtime may end the process ("concurrent map read
\* and map write"), or the read may return any entry or none.
LookupEnd(c) ==
    /\ RegAlive
    /\ rpc[c].op = "Lookup"
    /\ rpc' = [rpc EXCEPT ![c] = IdleCall]
    /\ IF rpc[c].raced
       THEN \E v \in Fns \cup {NoEntry, "fatal"} :
              IF v = "fatal"
              THEN /\ crashed' = TRUE
                   /\ exitCode' = 2
                   /\ UNCHANGED rres
              ELSE /\ rres' = [rres EXCEPT ![c] =
                                 Returned("Lookup", rpc[c].id, CheckDefinition(rpc[c].id, v),
                                          Nil, <<>>, Len(log))]
                   /\ UNCHANGED <<crashed, exitCode>>
       ELSE /\ rres' = [rres EXCEPT ![c] =
                          Returned("Lookup", rpc[c].id,
                                   CheckDefinition(rpc[c].id, registry[rpc[c].id]),
                                   Nil, <<>>, Len(log))]
            /\ UNCHANGED <<crashed, exitCode>>
    /\ UNCHANGED <<runVars, tmoVars, outVars, registry, mu, log>>

NextReg ==
    \/ \E c \in Callers, id \in Ids, fn \in Fns : RegisterBegin(c, id, fn)
    \/ \E c \in Callers : RegisterEnd(c)
    \/ \E c \in Callers, id \in Ids : GetBegin(c, id)
    \/ \E c \in Callers : GetEnd(c)
    \/ \E c \in Callers : ListBegin(c)
    \/ \E c \in Callers : ListEnd(c)
    \/ \E c \in Callers, id \in Ids : LookupBegin(c, id)
    \/ \E c \in Callers : LookupEnd(c)

SpecReg == InitReg /\ [][NextReg]_vars

-----------------------------------------------------------------------------
(* Properties *)

\* run has left its collection loop
Collected == pcMain = "write" \/ (pcMain = "exit" /\ runErr.err # ConfigError)

\* the positions in results of the outcomes appended for check i
OutcomesOf(i) == {j \in 1..Len(owner) : owner[j] = i}

TimedOutShape(r) == r.Status = Error /\ r.Output = <<"check execution timed out">>

\* the check's deadline passed before its work had ended
Late(i) == hist[i].err = DeadlineExceeded /\ hist[i].proc # "exited"

\* C1 (as claimed; the code violates it): when the collection loop of run has
\* ended, results holds exactly one outcome per configured check, never fewer
\* and never two for the same check.
C1_Completeness ==
    Collected =>
        /\ Len(results) = Len(cfg)
        /\ \A i \in Checks : Cardinality(OutcomesOf(i)) = 1

\* C2 (as claimed; the code violates it): a check whose work had not ended
\* when its deadline passed is in the final result set with status Error and
\* the timed-out output, whatever it returned afterwards.
C2_TimeoutDominance ==
    Collected =>
        \A i \in Checks : Late(i) => \E j \in OutcomesOf(i) : TimedOutShape(results[j])

\* C3 (as claimed; the code violates it): a panic inside one check's
\* invocation is caught at the task boundary; it never ends the process.
C3_PanicIsolation ==
    \A i \in Checks : proc[i] = "panicked" => ~crashed

\* C4 (as claimed; the code violates it): two configured checks with the same
\* name each have their own outcome once the collection loop has ended.
C4_NoDeduplication ==
    Collected =>
        \A i, k \in Checks :
            (i # k /\ cfg[i].Name = cfg[k].Name) => (OutcomesOf(i) # {} /\ OutcomesOf(k) # {})

\* C5 (as claimed; the code violates it): every outcome returned by
\* ExecuteCheck or appended to results with status Error has a non-empty
\* error field.
C5_ErrorHasDiagnostic ==
    /\ \A i \in Checks :
         (ret[i] # NoRet /\ ret[i].result.Status = Error) => ret[i].result.Error # <<>>
    /\ \A j \in 1..Len(results) : results[j].Status = Error => results[j].Error # <<>>

\* the configuration is readable and its only flaw is a check whose type is
\* neither "command" nor registered
UnknownTypeOnly ==
    /\ \A i \in Checks : cfg[i].Name # "" /\ cfg[i].Type # ""
    /\ \E i \in Checks : cfg[i].Type \notin (Registry \cup {"command"})

\* C6 (as claimed; the code violates it): with a configured check of unknown
\* type, run is not aborted: that check gets an Error outcome and every
\* sibling gets its own outcome.
C6_UnknownTypeIsolation ==
    (mode = "run" /\ pcMain = "exit" /\ UnknownTypeOnly /\ runErr.field \notin {"file", "parse"}) =>
        /\ runErr.err # ConfigError
        /\ \A i \in Checks : OutcomesOf(i) # {}
        /\ \A i \in Checks :
             cfg[i].Type \notin (Registry \cup {"command"}) =>
                 \E j \in OutcomesOf(i) : results[j].Status = Error

AllSuccess == \A j \in 1..Len(results) : results[j].Status = Success
AnyTimedOut == \E j \in 1..Len(results) : TimedOutShape(results[j])

\* the exit status main gives to a run with plain failures (main.go:30)
PlainFailureStatus == ExitStatus(ErrChecksFailure)

\* C7 (as claimed; the code violates it): exit status 0 exactly when every
\* outcome is Success, one non-zero status for plain failures, and another,
\* different non-zero status when a check timed out.
C7_DistinctExitCodes ==
    (pcMain = "exit" /\ runErr.err # ConfigError) =>
        /\ (exitCode = 0) <=> AllSuccess
        /\ (~AllSuccess /\ ~AnyTimedOut) => exitCode = PlainFailureStatus
        /\ AnyTimedOut => exitCode \notin {0, PlainFailureStatus}

\* C7 (amended): once the output is written, run returns nil exactly when
\* every outcome is Success, ErrChecksFailure when some outcome is not
\* Success and none timed out, and context.DeadlineExceeded when any check
\* timed out; main exits with 0 for nil and with the same status 1 for every
\* error.
C7_RunStatus ==
    (pcMain = "exit" /\ runErr.err \notin {ConfigError, OutputError}) =>
        /\ runErr.err = (IF AnyTimedOut THEN DeadlineExceeded
                         ELSE IF ~AllSuccess THEN ErrChecksFailure
                         ELSE Nil)
        /\ exitCode = (IF AllSuccess THEN 0 ELSE 1)

\* C7 witness: a run that ended with a timed-out check next to a plain failure
C7_Witness ==
    /\ pcMain = "exit"
    /\ runErr.err = DeadlineExceeded
    /\ exitCode = 1
    /\ \E j \in 1..Len(results) : results[j].Status = Failure

\* the command of check i was running when the check's own timeout elapsed
RunningAtTimeout(i) ==
    /\ ~IsNative(i)
    /\ hist[i].err = DeadlineExceeded
    /\ hist[i].proc = "running"

\* C8 (as claimed by the executor's test; the code violates it): ExecuteCheck
\* on a command still running when the per-check timeout elapses returns the
\* check's name and type, status Error, output "command execution timed out",
\* and a nil error.
C8_TimeoutReturnsNilError ==
    \A i \in Checks :
        (mode = "direct" /\ pc[i] = "returned" /\ RunningAtTimeout(i) /\ hist[i].blocked) =>
            ret[i] = [result |-> CheckResult(cfg[i].Name, cfg[i].Type, Error,
                                             <<"command execution timed out">>, <<>>),
                      err |-> Nil]

\* the caller canceled while ExecuteCheck was blocked in its select on the
\* running command of check i
CanceledWhileRunning(i) ==
    /\ ~IsNative(i)
    /\ hist[i].err = Canceled
    /\ hist[i].proc = "running"
    /\ hist[i].blocked

Structured(t) == UnmarshalOK(t)

ExitCodeMessage(c) == <<"command failed with exit code ", ToString(c)>>

StdoutThenStderr(w) ==
    IF w.stderr = <<>> THEN TrimSpace(w.stdout)
    ELSE IF TrimSpace(w.stdout) = <<>> THEN TrimSpace(w.stderr)
    ELSE TrimSpace(w.stdout) \o <<"\n">> \o TrimSpace(w.stderr)

JsonWithStatus(w) ==
    /\ UnmarshalOK(CombinedOutput(w))
    /\ Unmarshal(CombinedOutput(w)).status.k = "str"

\* C11: a command that exits non-zero gets status Error with the exit code
\* message even when its output is one JSON object with a status of its own;
\* a status other than Error comes only from a command that exited zero.
C11_ExitCodeWins ==
    (mode = "cmd" /\ pcMain = "mapped") =>
        /\ (inp.err = "exit" /\ JsonWithStatus(inp)) =>
             /\ out.Status = Error
             /\ out.Error = ExitCodeMessage(inp.code)
        /\ out.Status \in {Success, Failure, Warning} => inp.err = "nil"

\* C11 witness: a command that printed a JSON object with status success and
\* exited non-zero has been mapped to Error
C11_Witness ==
    /\ mode = "cmd"
    /\ pcMain = "mapped"
    /\ inp.err = "exit"
    /\ JsonWithStatus(inp)
    /\ Unmarshal(CombinedOutput(inp)).status.v = <<"success">>
    /\ out.Status = Error

SuccessWords == {<<"success">>, <<"Success">>, <<"SUCCESS">>, <<"pass">>, <<"Pass">>, <<"PASS">>}
FailureWords == {<<"failure">>, <<"Failure">>, <<"FAILURE">>, <<"fail">>, <<"Fail">>, <<"FAIL">>}
WarningWords == {<<"warning">>, <<"Warning">>, <<"WARNING">>, <<"warn">>, <<"Warn">>, <<"WARN">>}

\* the map has no non-empty "error" string, so ProcessOutput reaches the
\* normalization of the status string
StatusDecides(m) == ~(m.error.k = "str" /\ m.error.v # <<>>) /\ m.status.k = "str"

\* C12: when ProcessOutput normalizes a status string, "success"/"pass" in any
\* letter case give Success, "failure"/"fail" give Failure, "warning"/"warn"
\* give Warning and every other string gives Error; the result of every call
\* carries the check name and type passed in.
C12_StatusNormalization ==
    (mode = "proc" /\ pcMain = "processed") =>
        /\ out.Name = inp.checkName
        /\ out.Type = inp.checkType
        /\ StatusDecides(inp.output) =>
             out.Status = (CASE inp.output.status.v \in SuccessWords -> Success
                             [] inp.output.status.v \in FailureWords -> Failure
                             [] inp.output.status.v \in WarningWords -> Warning
                             [] OTHER -> Error)

\* C12 witness: the status "WARN" with an output has been normalized to Warning
C12_Witness ==
    /\ mode = "proc"
    /\ pcMain = "processed"
    /\ inp.output = Obj(StrVal(<<"WARN">>), StrVal(<<"x">>), Absent)
    /\ out.Status = Warning
    /\ out.Output = <<"x">>

\* ExecuteCheck returned for native check i through the case of its select
\* that receives what the check function returned, and that was an error
NativeFailed(i) ==
    /\ IsNative(i)
    /\ pc[i] = "returned"
    /\ cctx[i] = "none"
    /\ done[i] # NoVal
    /\ done[i].err # Nil

\* C13: a native check function that returns a non-nil error makes ExecuteCheck
\* return an Error result with the check's name and type and a nil error; in
\* run that result is posted like any other, and once run has collected it
\* without a deadline or cancellation it is the check's outcome and run ends
\* with the checks-failed error (or an output error), nothing else.
C13_NativeErrorIsOutcome ==
    \A i \in Checks :
        NativeFailed(i) =>
            /\ ret[i] = [result |-> CheckResult(cfg[i].Name, cfg[i].Type, Error, <<>>,
                                                <<"failed to execute check: ", done[i].err>>),
                         err |-> Nil]
            /\ (mode = "run" /\ pcMain = "exit" /\ ctx = "none") =>
                 /\ \E j \in OutcomesOf(i) : results[j] = ret[i].result
                 /\ runErr.err \in {ErrChecksFailure, OutputError}

\* C13 witness: run has ended with the Error outcome of a native check whose
\* function returned an error, next to the outcome of another check
C13_Witness ==
    \E i \in Checks :
        /\ mode = "run"
        /\ pcMain = "exit"
        /\ NativeFailed(i)
        /\ Len(results) = 2
        /\ \E j \in OutcomesOf(i) : results[j].Status = Error
        /\ runErr.err = ErrChecksFailure

\* C14 (as claimed; the code violates it): no caller reads the registry map
\* while a Register call is writing it.
C14_RegistrySynchronized ==
    \A c, d \in Callers : ~(rpc[c].at = "writing" /\ rpc[d].at = "reading")

\* the function the last of the writes in l registered for id
RECURSIVE LastFor(_, _)
LastFor(id, l) ==
    IF l = <<>> THEN NoEntry
    ELSE IF l[Len(l)].id = id THEN l[Len(l)].fn
    ELSE LastFor(id, SubSeq(l, 1, Len(l) - 1))

\* the Register writes applied before the call of result r read the map
SeenBy(r) == SubSeq(log, 1, r.seen)

\* C15: Get(t) returns the entry of the last Register of exactly t, and the
\* zero entry with a not-found error when t was never registered; List
\* returns one entry per registered identifier, each the last one registered.
C15_RegistryLookup ==
    \A c \in Callers :
        /\ rres[c].op = "Get" =>
             /\ rres[c].def = CheckDefinition(rres[c].id, LastFor(rres[c].id, SeenBy(rres[c])))
             /\ (rres[c].err = "not found") <=> (LastFor(rres[c].id, SeenBy(rres[c])) = NoEntry)
             /\ rres[c].err \in {Nil, "not found"}
        /\ rres[c].op = "List" =>
             /\ Len(rres[c].list) = Cardinality({id \in Ids : LastFor(id, SeenBy(rres[c])) # NoEntry})
             /\ \A id \in Ids :
                  LastFor(id, SeenBy(rres[c])) # NoEntry =>
                      Cardinality({k \in 1..Len(rres[c].list) :
                          rres[c].list[k] = CheckDefinition(id, LastFor(id, SeenBy(rres[c])))}) = 1

\* C15 witness: Get returned the function of the second Register of one
\* identifier, which replaced the first
C15_Witness ==
    \E c \in Callers :
        /\ rres[c].op = "Get"
        /\ Len(log) = 2
        /\ log[1].id = rres[c].id
        /\ log[2].id = rres[c].id
        /\ log[1].fn # log[2].fn
        /\ rres[c].seen = 2
        /\ rres[c].def.Handler = log[2].fn

\* the outcome came from a path that builds it from the originating check:
\* a native result without name or type, an error, a timeout, a cancellation
FilledFromCheck(j) ==
    \/ results[j].Status = Error
    \/ /\ IsNative(owner[j])
       /\ done[owner[j]] # NoVal
       /\ done[owner[j]].err = Nil
       /\ done[owner[j]].result.Name = ""
       /\ done[owner[j]].result.Type = ""

CompletionOrders(s) ==
    {[i \in 1..Len(s) |-> s[f[i]]] :
        f \in {g \in [1..Len(s) -> 1..Len(s)] : \A i, k \in 1..Len(s) : i # k => g[i] # g[k]}}

\* C17 (as claimed; the code violates it): the list handed to the formatter is
\* sorted by name in non-decreasing order, and it is the list the sort gives
\* for the same outcomes in any other order of completion.
C17_DeterministicAggregation ==
    written # "no" =>
        /\ \A j \in 1..(Len(sortedResults) - 1) :
             NameRank(sortedResults[j].Name) <= NameRank(sortedResults[j + 1].Name)
        /\ \A p \in CompletionOrders(results) : SortByName(p) = sortedResults

\* C18 (as claimed; the code violates it): a run whose outcomes are all
\* Success or Warning does not return the checks-failed error.
C18_WarningIsNotFailure ==
    (pcMain = "exit" /\ written = "yes" /\
     \A j \in 1..Len(results) : results[j].Status \in {Success, Warning}) =>
        runErr.err # ErrChecksFailure

\* C19 (as claimed; the code violates it): a configuration error is returned
\* before any check was started and before anything was written; an output
\* error is returned only when every configured check has an outcome.
C19_RunFatalOrdering ==
    /\ runErr.err = ConfigError =>
         /\ \A i \in Checks : pc[i] = "idle"
         /\ written = "no"
         /\ results = <<>>
    /\ runErr.err = OutputError => \A i \in Checks : OutcomesOf(i) # {}

\* C20: the timeout run uses is the flag value when the flag was set, else the
\* timeout of the configuration file when it has one, else 30s; run's context
\* and the executor get that same value.
C20_EffectiveTimeout ==
    (mode = "run" /\ pcMain \in {"collect", "write", "exit"} /\ runErr.err # ConfigError) =>
        /\ timeout = (IF opts.Changed THEN opts.Timeout
                      ELSE IF cfgTimeout # NoTimeout THEN cfgTimeout
                      ELSE 30)
        /\ ctxTimeout = timeout
        /\ execTimeout = timeout

\* C20 witness: the flag was set to 60s over a configuration file with 5s, and
\* a check started with that timeout has returned
C20_Witness ==
    /\ mode = "run"
    /\ opts = Options(TRUE, 60)
    /\ cfgTimeout = 5
    /\ execTimeout = 60
    /\ ctxTimeout = 60
    /\ pc[1] = "returned"

\* C21: run's collection loop always ends (or the process ends), whatever the
\* check tasks do; when it ends without the run context being done, every
\* task has posted its outcome and every outcome was received.
C21_CollectionTerminates ==
    /\ (pcMain = "collect") ~> (pcMain # "collect" \/ crashed)
    /\ [](((Collected /\ ctx = "none") =>
             /\ \A k \in 1..MaxChecks : k \in Checks => pc[k] = "returned"
             /\ resultChan = <<>>
             /\ Len(results) = Len(cfg)))

\* C21 witness: the loop has ended at the deadline while a native check
\* function was still running and its task had posted nothing
C21_Witness ==
    /\ pcMain = "write"
    /\ ctx = DeadlineExceeded
    /\ \E i \in Checks : IsNative(i) /\ proc[i] = "running" /\ pc[i] = "wokeCtx"

Min(a, b) == IF a < b THEN a ELSE b

\* C27: the deadline of each check's context is never later than the deadline
\* of run's context; it is the earlier of the two, the run deadline and the
\* per-check timeout counted from the moment ExecuteCheck was entered, and the
\* check's context is not done by a deadline before that moment.
C27_CheckDeadlineWithinRun ==
    mode = "deadline" =>
        \A i \in Checks :
            cdeadline[i] # NotEntered =>
                /\ cdeadline[i].at <= deadline
                /\ cdeadline[i].at = Min(deadline, cdeadline[i].start + execTimeout)
                /\ cctx[i] = DeadlineExceeded => clock >= cdeadline[i].at

\* C27 witness: a check entered after run's context was created, so that its
\* own timeout would end after the run deadline, was canceled by a deadline
C27_Witness ==
    \E i \in Checks :
        /\ mode = "deadline"
        /\ cdeadline[i] # NotEntered
        /\ cdeadline[i].start + execTimeout > deadline
        /\ cctx[i] = DeadlineExceeded
        /\ clock < cdeadline[i].start + execTimeout

\* the step of run's collection loop that takes the ctx.Done() case
DeadlineStep ==
    /\ pcMain = "collect"
    /\ remainingChecks > 0
    /\ remainingChecks' = 0
    /\ resultChan' = resultChan

\* the checks an outcome was appended for by the step
AppendedFor == {owner'[j] : j \in (Len(results) + 1)..Len(results')}

NamesDistinct == \A i, k \in Checks : cfg[i].Name = cfg[k].Name => i = k

\* C22 (as claimed; the code violates it): when run takes the ctx.Done() case,
\* a "check execution timed out" outcome is added for exactly the checks whose
\* task has not yet posted its outcome to the results channel. Stated for
\* configurations whose check names are pairwise distinct.
C22_SyntheticOnlyForUnposted ==
    [][(DeadlineStep /\ NamesDistinct) =>
          \A i \in Checks : (i \in AppendedFor) <=> (pc[i] # "returned")]_vars

\* the messages of check i that sit in the results channel
SentBy(i) == {k \in 1..Len(resultChan) : resultChan[k].idx = i}

\* C23: each check task sends one message on the results channel, after which
\* it is done, and none before; while run receives, the messages sent and
\* received for a check are one when its task has returned and none otherwise;
\* the channel never holds more than its capacity, and while any task has yet
\* to send it has a free slot, so that the send does not block.
C23_OneSendNeverBlocks ==
    mode = "run" =>
        /\ Len(resultChan) <= Capacity
        /\ \A i \in Checks :
            /\ Cardinality(SentBy(i)) <= 1
            /\ SentBy(i) # {} => pc[i] = "returned"
            /\ (pcMain = "collect" /\ remainingChecks > 0) =>
                  Cardinality(SentBy(i)) + Cardinality(OutcomesOf(i))
                      = (IF pc[i] = "returned" THEN 1 ELSE 0)
            /\ pc[i] \notin {"idle", "returned"} => Len(resultChan) < Capacity

\* C23 witness: run left the loop at the deadline without receiving anything,
\* and every task has sent since: the channel is full
C23_Witness ==
    /\ mode = "run"
    /\ pcMain \in {"write", "exit"}
    /\ ctx = DeadlineExceeded
    /\ Len(cfg) = MaxChecks
    /\ Len(resultChan) = Capacity
    /\ \A i \in Checks : pc[i] = "returned" /\ Cardinality(SentBy(i)) = 1

\* C24 (as claimed; the code violates it): once the context of a check is
\* done, ExecuteCheck returns and the helper goroutine, the one waiting for
\* the child process or running the native function, ends, unless the process
\* itself ends first.
C24_NoLeakedTasks ==
    \A i \in 1..MaxChecks :
        (i \in Checks /\ cctx[i] # "none")
            ~> (i \in Checks => (~Alive \/ (pc[i] = "returned" /\ proc[i] # "running")))

\* C25: once run waits for results a task has been started for every
\* configured check; a task that has a step to take can take it whatever the
\* other tasks do; and what a task posts is what its ExecuteCheck returned.
C25_FullFanOut ==
    mode = "run" =>
        /\ (pcMain \in {"collect", "write"} \/ Collected) => \A i \in Checks : pc[i] # "idle"
        /\ Alive =>
             \A i \in Checks :
                /\ pc[i] = "start" => ENABLED ExecBegin(i)
                /\ pc[i] = "startcmd" => ENABLED CmdStart(i)
                /\ pc[i] = "select" => ENABLED Select(i)
                /\ pc[i] \in {"wokeCtx", "wokeDone"} => ENABLED Resume(i)
        /\ \A k \in 1..Len(resultChan) :
              /\ resultChan[k].result = ret[resultChan[k].idx].result
              /\ resultChan[k].err = ret[resultChan[k].idx].err

\* C25 witness: run has received the outcome of a check that completed, while
\* the other check is blocked in its select and the context is not done
C25_Witness ==
    /\ mode = "run"
    /\ pcMain = "collect"
    /\ ctx = "none"
    /\ Len(cfg) = 2
    /\ \E i, k \in Checks :
          /\ i # k
          /\ pc[k] = "parked"
          /\ pc[i] = "returned"
          /\ ret[i].err = Nil
          /\ \E j \in 1..Len(results) : owner[j] = i /\ results[j] = ret[i].result

\* C26 (as claimed; the code violates it): a check is reported as timed out,
\* whether by its outcome, by the list of timed-out checks or by the deadline
\* error run returns, only when the deadline of run's context or of the
\* check's own context elapsed.
C26_TimedOutOnlyByDeadline ==
    (mode = "run" /\ Collected) =>
        ((\/ timedOutChecks # <<>>
          \/ \E j \in 1..Len(results) : TimedOutShape(results[j])
          \/ runErr.err = DeadlineExceeded)
            => (ctx = DeadlineExceeded \/ \E i \in Checks : cctx[i] = DeadlineExceeded))

\* C28 (as claimed; the code violates it): for a command that exited zero and
\* whose stdout is one JSON object with a status, the status of the result is
\* the one ProcessOutput gives for that object, whatever the command wrote to
\* stderr.
C28_StatusFromStdoutAlone ==
    (/\ mode = "cmd"
     /\ pcMain = "mapped"
     /\ inp.err = "nil"
     /\ UnmarshalOK(inp.stdout)
     /\ Unmarshal(inp.stdout).status.k = "str") =>
        out.Status = ProcessOutput(cfg[1].Name, cfg[1].Type, Unmarshal(inp.stdout)).Status

\* the map has an "error" that is a non-empty string
HasErrorText(m) == m.error.k = "str" /\ m.error.v # <<>>

\* C29: ProcessOutput gives status Error with the text of a non-empty "error"
\* string, whatever the "status" field says; without such an error and without
\* a status string it gives Success when "output" is present, and Error with
\* "no status or output provided" when it is not.
C29_ErrorFirstThenOutput ==
    (mode = "proc" /\ pcMain = "processed") =>
        /\ HasErrorText(inp.output) =>
             /\ out.Status = Error
             /\ out.Error = inp.output.error.v
        /\ (~HasErrorText(inp.output) /\ inp.output.status.k # "str") =>
             IF inp.output.output.k # "absent"
             THEN out.Status = Success /\ out.Error = <<>>
             ELSE out.Status = Error /\ out.Error = <<"no status or output provided">>

\* C29 witness: a map with status "success", an output and the error "boom"
\* has been processed to Error with the text boom
C29_Witness ==
    /\ mode = "proc"
    /\ pcMain = "processed"
    /\ inp.output = Obj(StrVal(<<"success">>), StrVal(<<"x">>), StrVal(<<"boom">>))
    /\ out.Status = Error
    /\ out.Error = <<"boom">>

\* C30: once the collection loop has ended, the failed checks are as many as
\* the outcomes whose status is not Success, the timed-out checks as many as
\* the outcomes with the timed-out output, every timed-out check is among the
\* failed ones; and run, when the output was written, returns nil exactly when
\* every outcome is Success.
C30_SummaryCounts ==
    (mode = "run" /\ Collected) =>
        /\ Len(failedChecks)
             = Cardinality({j \in 1..Len(results) : results[j].Status # Success})
        /\ Len(timedOutChecks)
             = Cardinality({j \in 1..Len(results) : TimedOutShape(results[j])})
        /\ \A k \in 1..Len(timedOutChecks) :
              \E f \in 1..Len(failedChecks) : failedChecks[f] = timedOutChecks[k].Name
        /\ (pcMain = "exit" /\ written = "yes") => (runErr.err = Nil <=> AllSuccess)

\* C30 witness: run has returned after one check timed out at the run
\* deadline and the other was received with status Failure
C30_Witness ==
    /\ mode = "run"
    /\ pcMain = "exit"
    /\ written = "yes"
    /\ Len(results) = 2
    /\ Len(failedChecks) = 2
    /\ Len(timedOutChecks) = 1
    /\ \E j \in 1..2 : results[j].Status = Failure
    /\ runErr.err = DeadlineExceeded

====
